---- MODULE Spec2Model ----
(***************************************************************************)
(* A model of moneez.py: the ingestion of bank-export CSV files, the       *)
(* categorisation of payments, the year/month buckets and the reports of   *)
(* main() (in_out_year, show_current_amount, show_year/overview_year).     *)
(*                                                                         *)
(* Strings whose content the code inspects (name, usage, keywords, the     *)
(* Bemerkung field) are tuples of one-character strings; labels that are   *)
(* only compared (categories, ibans, keys, currencies) are TLA+ strings.   *)
(* Amounts are counted in cents, so sums are exact.                        *)
(***************************************************************************)
EXTENDS Integers, Sequences, FiniteSets, TLC

VARIABLES
    known_ibans,       \* JSON["ibans"]: iban -> category
    keywords,          \* JSON["keywords"]: ordered <<keyword, category>> entries
    inputFiles,        \* JSON["input files"], each with the content of its file
    argsYear,          \* int(ARGS.year)
    pc,                \* position of main()
    error,             \* why the run ended early ("" while it has not)
    fileIdx,           \* input files whose loop iteration has completed
    ALL_PAYMENTS,      \* the global list
    PAYMENTS_BY_YEAR,  \* the defaultdict: year -> 12 month buckets
    yearKeys,          \* the keys of PAYMENTS_BY_YEAR in insertion order
    inOutIdx,          \* keys of PAYMENTS_BY_YEAR main() has passed to in_out_year
    reports,           \* what the report operations have printed or drawn, in order
    payment            \* the payment associate_category is applied to (SpecCat)

vars == <<known_ibans, keywords, inputFiles, argsYear, pc, error, fileIdx,
          ALL_PAYMENTS, PAYMENTS_BY_YEAR, yearKeys, inOutIdx, reports, payment>>

(***************************************************************************)
(* Bounds                                                                  *)
(***************************************************************************)
MaxFiles == 2      \* input files of a run
MaxRows == 1       \* data rows of a generated input file
MaxLen == 2        \* characters of a generated counterparty name

Months == 12

(***************************************************************************)
(* Strings                                                                 *)
(***************************************************************************)
Range(s) == {s[i] : i \in 1..Len(s)}

SeqsUpTo(S, n) == UNION {[1..k -> S] : k \in 0..n}

\* str.lower() on the characters the model uses
LowerChar(c) == IF c = "A" THEN "a" ELSE IF c = "B" THEN "b" ELSE c

Lower(s) == [i \in 1..Len(s) |-> LowerChar(s[i])]

\* \w of the re module
IsWordChar(c) == c \in {"a", "b", "A", "B"}

\* Python's `kw in s` for strings
IsSubstring(kw, s) ==
    \E i \in 0..(Len(s) - Len(kw)) : SubSeq(s, i + 1, i + Len(kw)) = kw

\* re.sub("\\W+", " ", value): every maximal run of non-word characters
\* becomes one space
RECURSIVE SubNonWord(_, _)
SubNonWord(value, i) ==
    IF i > Len(value) THEN <<>>
    ELSE IF IsWordChar(value[i]) THEN <<value[i]>> \o SubNonWord(value, i + 1)
    ELSE IF i > 1 /\ ~IsWordChar(value[i - 1]) THEN SubNonWord(value, i + 1)
    ELSE <<" ">> \o SubNonWord(value, i + 1)

\* str.strip() (only the space among the model's characters is whitespace)
RECURSIVE Strip(_)
Strip(s) ==
    IF s = <<>> THEN s
    ELSE IF Head(s) = " " THEN Strip(Tail(s))
    ELSE IF s[Len(s)] = " " THEN Strip(SubSeq(s, 1, Len(s) - 1))
    ELSE s

(***************************************************************************)
(* Payment and associate_category                                          *)
(***************************************************************************)
None == "None"

NewPayment ==
    [date |-> None, name |-> None, iban |-> None, usage |-> None,
     amount |-> None, amount_left |-> None, category |-> None]

\* The loop `for kw in keywords` from entry i on: the category of the first
\* entry whose keyword occurs in name or usage, "Unknown" when the loop ends
RECURSIVE KeywordScan(_, _, _, _)
KeywordScan(kws, name, usage, i) ==
    IF i > Len(kws) THEN "Unknown"
    ELSE IF IsSubstring(kws[i][1], name) \/ IsSubstring(kws[i][1], usage)
         THEN kws[i][2]
         ELSE KeywordScan(kws, name, usage, i + 1)

\* associate_category with the keyword scan ahead of the IBAN lookup
AssociateCategoryKeywordFirst(p, ibans, kws) ==
    LET c == KeywordScan(kws, Lower(p.name), Lower(p.usage), 1)
    IN  IF c # "Unknown" THEN c
        ELSE IF p.iban \in DOMAIN ibans THEN ibans[p.iban] ELSE "Unknown"

\* The category associate_category assigns to payment p
AssociateCategory(p, ibans, kws) ==
    IF p.iban \in DOMAIN ibans THEN ibans[p.iban]
    ELSE KeywordScan(kws, Lower(p.name), Lower(p.usage), 1)

(***************************************************************************)
(* The field processor and process_csv                                     *)
(***************************************************************************)
\* datetime.strptime(value, "%d.%m.%Y") of a well-formed value, written here
\* as <<day, month, year>>
Strptime(value) == [year |-> value[3], month |-> value[2], day |-> value[1]]

\* float(value.replace(",", ".")) in cents; value is <<sign, euros, cents>>
ParseAmount(value) == value[1] * (value[2] * 100 + value[3])

\* gls_process_field: the payment after the field, and how the process exits
\* in it ("" when it does not)
GlsProcessField(p, key, value) ==
    CASE key = "Buchungstag" ->
           [payment |-> [p EXCEPT !.date = Strptime(value)], exit |-> ""]
      [] key = "Name Zahlungsbeteiligter" ->
           [payment |-> [p EXCEPT !.name = value], exit |-> ""]
      [] key = "IBAN Zahlungsbeteiligter" ->
           [payment |-> [p EXCEPT !.iban = value], exit |-> ""]
      [] key = "Verwendungszweck" ->
           [payment |-> [p EXCEPT !.usage = SubNonWord(value, 1)], exit |-> ""]
      [] key = "Betrag" ->
           [payment |-> [p EXCEPT !.amount = ParseAmount(value)], exit |-> ""]
      [] key = "Waehrung" ->
           [payment |-> p, exit |-> IF value # "EUR" THEN "Unknown currency" ELSE ""]
      [] key = "Saldo nach Buchung" ->
           [payment |-> [p EXCEPT !.amount_left = ParseAmount(value)], exit |-> ""]
      [] key = "Bemerkung" ->
           [payment |-> p, exit |-> IF Strip(value) # <<>> THEN "Wat" ELSE ""]
      [] key \in {"Glaeubiger ID", "Mandatsreferenz", "Valutadatum",
                  "Bezeichnung Auftragskonto", "IBAN Auftragskonto",
                  "BIC Auftragskonto", "Bankname Auftragskonto"} ->
           [payment |-> p, exit |-> ""]
      [] OTHER ->
           [payment |-> p, exit |-> "Unknown key"]

\* field_processor(payment, key, value) in process_csv: process_all_input_files
\* passes gls_process_field for "gls" and the name itself, a str, otherwise,
\* and calling a str raises TypeError
CallFieldProcessor(field_processor, p, key, value) ==
    IF field_processor = "gls" THEN GlsProcessField(p, key, value)
    ELSE [payment |-> p, exit |-> "TypeError"]

\* The inner loop of process_csv over the (key, value) pairs of one row, from
\* column i on
RECURSIVE ProcessRow(_, _, _, _, _)
ProcessRow(field_processor, keys, row, i, p) ==
    IF i > Len(row) THEN [payment |-> p, exit |-> ""]
    ELSE LET r == CallFieldProcessor(field_processor, p, keys[i], row[i])
         IN  IF r.exit # "" THEN r
             ELSE ProcessRow(field_processor, keys, row, i + 1, r.payment)

\* The outer loop of process_csv over the rows, from row i on: the payments
\* built, and how the process exits in it
RECURSIVE ProcessRows(_, _, _, _)
ProcessRows(field_processor, keys, rows, i) ==
    IF i > Len(rows) THEN [payments |-> <<>>, exit |-> ""]
    ELSE LET r == ProcessRow(field_processor, keys, rows[i], 1, NewPayment)
         IN  IF r.exit # "" THEN [payments |-> <<>>, exit |-> r.exit]
             ELSE LET rest == ProcessRows(field_processor, keys, rows, i + 1)
                  IN  [payments |-> <<r.payment>> \o rest.payments,
                       exit |-> rest.exit]

(***************************************************************************)
(* process_payments                                                        *)
(***************************************************************************)
EmptyYear == [m \in 1..Months |-> <<>>]

\* A lookup that starts a new dict on a missing key
DefaultGetFresh(d, year) ==
    IF year \in DOMAIN d.byYear THEN d
    ELSE [byYear |-> [y \in {year} |-> EmptyYear], keys |-> <<year>>]

\* PAYMENTS_BY_YEAR[year] of the defaultdict: a missing key is inserted
DefaultGet(d, year) ==
    IF year \in DOMAIN d.byYear THEN d
    ELSE [byYear |-> [y \in DOMAIN d.byYear \cup {year} |->
                        IF y = year THEN EmptyYear ELSE d.byYear[y]],
          keys |-> Append(d.keys, year)]

\* A bucket assignment in place of the append
BucketAssign(d, p) ==
    LET e == DefaultGet(d, p.date.year)
    IN  [e EXCEPT !.byYear[p.date.year][p.date.month] = <<p>>]

\* PAYMENTS_BY_YEAR[year][month - 1].append(p); position month of the model's
\* 1-based sequence is index month - 1 of the list
BucketAppend(d, p) ==
    LET e == DefaultGet(d, p.date.year)
    IN  [e EXCEPT !.byYear[p.date.year][p.date.month] = Append(@, p)]

RECURSIVE BucketAll(_, _, _)
BucketAll(d, payments, i) ==
    IF i > Len(payments) THEN d
    ELSE BucketAll(BucketAppend(d, payments[i]), payments, i + 1)

\* process_payments with `ALL_PAYMENTS = payments` for `ALL_PAYMENTS += payments`
ProcessPaymentsOverwrite(all, d, payments, ibans, kws) ==
    LET categorized ==
            [i \in 1..Len(payments) |->
                [payments[i] EXCEPT
                    !.category = AssociateCategory(payments[i], ibans, kws)]]
    IN  [all |-> categorized, d |-> BucketAll(d, categorized, 1)]

\* process_payments: the global list and the defaultdict afterwards
ProcessPayments(all, d, payments, ibans, kws) ==
    LET categorized ==
            [i \in 1..Len(payments) |->
                [payments[i] EXCEPT
                    !.category = AssociateCategory(payments[i], ibans, kws)]]
    IN  [all |-> all \o categorized, d |-> BucketAll(d, categorized, 1)]

\* process_csv handing the payments built so far to process_payments also when
\* a field ends the run
ProcessCsvKeepRows(file, field_processor, all, d, ibans, kws) ==
    LET r == ProcessRows(field_processor, file.keys, file.rows, 1)
        q == ProcessPayments(all, d, r.payments, ibans, kws)
    IN  [all |-> q.all, d |-> q.d, exit |-> r.exit]

\* process_csv for the keys and rows of a file: what the run's state is
\* afterwards, and how the process exits in it
ProcessCsv(file, field_processor, all, d, ibans, kws) ==
    LET r == ProcessRows(field_processor, file.keys, file.rows, 1)
    IN  IF r.exit # "" THEN [all |-> all, d |-> d, exit |-> r.exit]
        ELSE LET q == ProcessPayments(all, d, r.payments, ibans, kws)
             IN  [all |-> q.all, d |-> q.d, exit |-> ""]

\* process_all_input_files from entry i on: the run's state when the loop
\* ends, or when the process exits in it
RECURSIVE IngestAll(_, _, _, _, _, _)
IngestAll(files, i, all, d, ibans, kws) ==
    IF i > Len(files) THEN [all |-> all, d |-> d, exit |-> ""]
    ELSE LET r == ProcessCsv(files[i].file, files[i].field_processor, all, d,
                             ibans, kws)
         IN  IF r.exit # "" THEN r
             ELSE IngestAll(files, i + 1, r.all, r.d, ibans, kws)

(***************************************************************************)
(* Reports                                                                 *)
(***************************************************************************)
\* sum(p.amount for p in ps if p.amount > 0)
RECURSIVE SumPositive(_)
SumPositive(ps) ==
    IF ps = <<>> THEN 0
    ELSE (IF Head(ps).amount > 0 THEN Head(ps).amount ELSE 0) + SumPositive(Tail(ps))

\* sum(p.amount for p in ps if p.amount < 0)
RECURSIVE SumNegative(_)
SumNegative(ps) ==
    IF ps = <<>> THEN 0
    ELSE (IF Head(ps).amount < 0 THEN Head(ps).amount ELSE 0) + SumNegative(Tail(ps))

\* The sum of a category with the filter of in_out_year's plus column added
RECURSIVE SumCategoryPositive(_, _)
SumCategoryPositive(ps, category) ==
    IF ps = <<>> THEN 0
    ELSE (IF Head(ps).category = category /\ Head(ps).amount > 0
          THEN Head(ps).amount ELSE 0)
            + SumCategoryPositive(Tail(ps), category)

\* sum(p.amount for p in ps if p.category == category)
RECURSIVE SumCategory(_, _)
SumCategory(ps, category) ==
    IF ps = <<>> THEN 0
    ELSE (IF Head(ps).category = category THEN Head(ps).amount ELSE 0)
            + SumCategory(Tail(ps), category)

\* in_out_year's printed lines for the 12 buckets of a year
InOutYear(year, payments) ==
    [op |-> "in_out_year", year |-> year,
     plus |-> [i \in 1..Months |-> SumPositive(payments[i])],
     minus |-> [i \in 1..Months |-> SumNegative(payments[i])]]

\* datetime's order
DateLess(a, b) ==
    \/ a.year < b.year
    \/ a.year = b.year /\ a.month < b.month
    \/ a.year = b.year /\ a.month = b.month /\ a.day < b.day

\* sorted(ps, key=lambda p: p.date): a stable sort, each element going behind
\* the elements sorted so far that are not later than it
RECURSIVE InsertByDate(_, _)
InsertByDate(sorted, p) ==
    IF sorted = <<>> THEN <<p>>
    ELSE IF DateLess(p.date, sorted[Len(sorted)].date)
         THEN Append(InsertByDate(SubSeq(sorted, 1, Len(sorted) - 1), p),
                     sorted[Len(sorted)])
         ELSE Append(sorted, p)

RECURSIVE SortedByDate(_)
SortedByDate(ps) ==
    IF ps = <<>> THEN <<>>
    ELSE InsertByDate(SortedByDate(SubSeq(ps, 1, Len(ps) - 1)), ps[Len(ps)])

\* The first payment of the latest date, as max(ps, key=...) would pick
RECURSIVE FirstLatest(_)
FirstLatest(ps) ==
    IF Len(ps) = 1 THEN ps[1]
    ELSE LET m == FirstLatest(SubSeq(ps, 1, Len(ps) - 1))
         IN  IF DateLess(m.date, ps[Len(ps)].date) THEN ps[Len(ps)] ELSE m

CurrentPaymentFirst(ps) == FirstLatest(ps)

\* payments[-1] of the sorted list in show_current_amount
CurrentPayment(ps) == SortedByDate(ps)[Len(ps)]

\* set(payment.category for month in range(12) for payment in payments[month])
CategorySet(payments) ==
    UNION {{payments[m][i].category : i \in 1..Len(payments[m])} : m \in 1..Months}

\* The orders in which a list can hold the elements of set S
Orders(S) ==
    {f \in [1..Cardinality(S) -> S] : \A i, j \in 1..Cardinality(S) :
                                         f[i] = f[j] => i = j}

\* The categories in bucket order, one entry per payment
RECURSIVE CategoriesOf(_, _)
CategoriesOf(payments, m) ==
    IF m > Months THEN <<>>
    ELSE [i \in 1..Len(payments[m]) |-> payments[m][i].category]
            \o CategoriesOf(payments, m + 1)

\* The categories collected into a list without the set
CategoryListsNoSet(payments) == {CategoriesOf(payments, 1)}

\* The values list(set(...)) can give `categories` in overview_year: the
\* iteration order of a set of str is not fixed
CategoryLists(payments) == Orders(CategorySet(payments))

\* The stacking with every bar placed on the positive total
RECURSIVE StackMonthOneBottom(_, _, _, _, _, _)
StackMonthOneBottom(payments, month, categories, i, bottom_positives, top_negatives) ==
    IF i > Len(categories)
    THEN [bars |-> <<>>, bottom_positives |-> bottom_positives,
          top_negatives |-> top_negatives]
    ELSE LET sigma == SumCategory(payments[month + 1], categories[i])
             bar == [x |-> month + 1, height |-> sigma, bottom |-> bottom_positives,
                     category |-> categories[i]]
             rest == StackMonthOneBottom(payments, month, categories, i + 1,
                        IF sigma >= 0 THEN bottom_positives + sigma
                                      ELSE bottom_positives,
                        IF sigma >= 0 THEN top_negatives
                                      ELSE top_negatives + sigma)
         IN  [rest EXCEPT !.bars = <<bar>> \o @]

\* The inner loop of overview_year for one month, from category i on, with the
\* running totals: the bars drawn and the totals at the end of the month
RECURSIVE StackMonth(_, _, _, _, _, _)
StackMonth(payments, month, categories, i, bottom_positives, top_negatives) ==
    IF i > Len(categories)
    THEN [bars |-> <<>>, bottom_positives |-> bottom_positives,
          top_negatives |-> top_negatives]
    ELSE LET sigma == SumCategory(payments[month + 1], categories[i])
             bottom == IF sigma >= 0 THEN bottom_positives ELSE top_negatives
             bar == [x |-> month + 1, height |-> sigma, bottom |-> bottom,
                     category |-> categories[i]]
             rest == StackMonth(payments, month, categories, i + 1,
                        IF sigma >= 0 THEN bottom_positives + sigma
                                      ELSE bottom_positives,
                        IF sigma >= 0 THEN top_negatives
                                      ELSE top_negatives + sigma)
         IN  [rest EXCEPT !.bars = <<bar>> \o @]

\* The loop over the months of overview_year, from month m (0-based) on
RECURSIVE StackMonths(_, _, _)
StackMonths(payments, categories, m) ==
    IF m >= Months THEN [bars |-> <<>>, stacks |-> <<>>]
    ELSE LET one == StackMonth(payments, m, categories, 1, 0, 0)
             rest == StackMonths(payments, categories, m + 1)
         IN  [bars |-> one.bars \o rest.bars,
              stacks |-> <<[bottom_positives |-> one.bottom_positives,
                            top_negatives |-> one.top_negatives]>> \o rest.stacks]

\* overview_year for the order list(set(...)) gave the categories: the legend
\* entries, the bars in drawing order, and each month's final running totals
OverviewYear(year, payments, categories) ==
    LET r == StackMonths(payments, categories, 0)
    IN  [op |-> "show_year", year |-> year,
         legend |-> categories, bars |-> r.bars, stacks |-> r.stacks]

(***************************************************************************)
(* Inputs                                                                  *)
(***************************************************************************)
GlsHeader ==
    <<"Buchungstag", "Valutadatum", "Name Zahlungsbeteiligter",
      "IBAN Zahlungsbeteiligter", "Verwendungszweck", "Betrag", "Waehrung",
      "Saldo nach Buchung", "Bemerkung">>

\* A header with a column gls_process_field does not know
DriftHeader == Append(GlsHeader, "Umsatztyp")

Row(day, name, iban, usage, amount, currency, saldo, bemerkung) ==
    <<day, day, name, iban, usage, amount, currency, saldo, bemerkung>>

RowSalary ==
    Row(<<10, 1, 2023>>, <<"A">>, "DE1", <<"a", "b">>, <<1, 100, 0>>, "EUR",
        <<1, 100, 0>>, <<>>)
RowRent ==
    Row(<<10, 1, 2023>>, <<"A", "b">>, "", <<"-", "-">>, <<-1, 40, 0>>, "EUR",
        <<1, 60, 0>>, <<" ">>)
RowFood ==
    Row(<<3, 12, 2024>>, <<"B">>, "", <<>>, <<1, 5, 50>>, "EUR",
        <<1, 65, 50>>, <<>>)
RowRentBack ==
    Row(<<11, 1, 2023>>, <<"a", "b">>, "", <<"a">>, <<1, 40, 0>>, "EUR",
        <<1, 140, 0>>, <<>>)
RowUnknown ==
    Row(<<2, 1, 2023>>, <<"a">>, "DE2", <<"a", "-", "b">>, <<-1, 0, 99>>, "EUR",
        <<-1, 0, 99>>, <<>>)
RowUsd ==
    Row(<<12, 1, 2023>>, <<"A">>, "DE1", <<>>, <<1, 7, 0>>, "USD",
        <<1, 7, 0>>, <<>>)
RowBemerkung ==
    Row(<<12, 1, 2023>>, <<"A">>, "DE1", <<>>, <<1, 7, 0>>, "EUR",
        <<1, 7, 0>>, <<" ", "a">>)

DataRows == {RowSalary, RowRent, RowFood}

FileInfo(field_processor, keys, rows) ==
    [field_processor |-> field_processor, file |-> [keys |-> keys, rows |-> rows]]

\* The input-file entries of the configuration, with the content of the file
FileInfos ==
    {FileInfo("gls", GlsHeader, rows) : rows \in SeqsUpTo(DataRows, MaxRows)}
    \cup {FileInfo("gls", GlsHeader, <<RowRent, RowRentBack>>),
          FileInfo("gls", GlsHeader, <<RowUnknown, RowSalary>>),
          FileInfo("gls", GlsHeader, <<RowUsd>>),
          FileInfo("gls", GlsHeader, <<RowSalary, RowUsd>>),
          FileInfo("gls", GlsHeader, <<RowBemerkung, RowUsd>>),
          FileInfo("gls", DriftHeader, <<Append(RowSalary, <<>>)>>),
          FileInfo("csv", GlsHeader, <<>>),
          FileInfo("csv", GlsHeader, <<RowSalary>>),
          FileInfo("csv", GlsHeader, <<RowUsd>>)}

MainIbans == [i \in {"DE1"} |-> "Salary"]

MainKeywords == << <<<<"a", "b">>, "Rent">>, <<<<"b">>, "Food">> >>

ArgYears == {2023, 2025}

(***************************************************************************)
(* The run of main()                                                       *)
(***************************************************************************)
Init ==
    /\ known_ibans = MainIbans
    /\ keywords = MainKeywords
    /\ inputFiles \in SeqsUpTo(FileInfos, MaxFiles)
    /\ argsYear \in ArgYears
    /\ pc = "process_all_input_files"
    /\ error = ""
    /\ fileIdx = 0
    /\ ALL_PAYMENTS = <<>>
    /\ PAYMENTS_BY_YEAR = <<>>
    /\ yearKeys = <<>>
    /\ inOutIdx = 0
    /\ reports = <<>>
    /\ payment = NewPayment

\* One iteration of the loop of process_all_input_files
ProcessInputFile ==
    /\ pc = "process_all_input_files"
    /\ fileIdx < Len(inputFiles)
    /\ LET file_info == inputFiles[fileIdx + 1]
           r == ProcessCsv(file_info.file, file_info.field_processor, ALL_PAYMENTS,
                           [byYear |-> PAYMENTS_BY_YEAR, keys |-> yearKeys],
                           known_ibans, keywords)
       IN  /\ ALL_PAYMENTS' = r.all
           /\ PAYMENTS_BY_YEAR' = r.d.byYear
           /\ yearKeys' = r.d.keys
           /\ IF r.exit = ""
              THEN /\ fileIdx' = fileIdx + 1
                   /\ UNCHANGED <<pc, error>>
              ELSE /\ pc' = "exited"
                   /\ error' = r.exit
                   /\ UNCHANGED fileIdx
    /\ UNCHANGED <<known_ibans, keywords, inputFiles, argsYear, inOutIdx, reports,
                   payment>>

\* process_all_input_files returns to main()
InputFilesDone ==
    /\ pc = "process_all_input_files"
    /\ fileIdx = Len(inputFiles)
    /\ pc' = "in_out_year"
    /\ UNCHANGED <<known_ibans, keywords, inputFiles, argsYear, error, fileIdx,
                   ALL_PAYMENTS, PAYMENTS_BY_YEAR, yearKeys, inOutIdx, reports,
                   payment>>

\* One iteration of `for YEAR in PAYMENTS_BY_YEAR: in_out_year(YEAR)`
InOutYearStep ==
    /\ pc = "in_out_year"
    /\ inOutIdx < Len(yearKeys)
    /\ LET year == yearKeys[inOutIdx + 1]
           d == DefaultGet([byYear |-> PAYMENTS_BY_YEAR, keys |-> yearKeys], year)
       IN  /\ PAYMENTS_BY_YEAR' = d.byYear
           /\ yearKeys' = d.keys
           /\ reports' = Append(reports, InOutYear(year, d.byYear[year]))
    /\ inOutIdx' = inOutIdx + 1
    /\ UNCHANGED <<known_ibans, keywords, inputFiles, argsYear, pc, error, fileIdx,
                   ALL_PAYMENTS, payment>>

\* show_current_amount; payments[-1] of an empty list raises IndexError
ShowCurrentAmount ==
    /\ pc = "in_out_year"
    /\ inOutIdx = Len(yearKeys)
    /\ IF ALL_PAYMENTS = <<>>
       THEN /\ pc' = "exited"
            /\ error' = "IndexError"
            /\ UNCHANGED reports
       ELSE /\ pc' = "show_year"
            /\ reports' = Append(reports,
                            [op |-> "show_current_amount",
                             balance |-> CurrentPayment(ALL_PAYMENTS).amount_left])
            /\ UNCHANGED error
    /\ UNCHANGED <<known_ibans, keywords, inputFiles, argsYear, fileIdx,
                   ALL_PAYMENTS, PAYMENTS_BY_YEAR, yearKeys, inOutIdx, payment>>

\* show_year(int(ARGS.year))
ShowYear ==
    /\ pc = "show_year"
    /\ LET d == DefaultGet([byYear |-> PAYMENTS_BY_YEAR, keys |-> yearKeys], argsYear)
       IN  /\ PAYMENTS_BY_YEAR' = d.byYear
           /\ yearKeys' = d.keys
           /\ \E categories \in CategoryLists(d.byYear[argsYear]) :
                reports' = Append(reports,
                              OverviewYear(argsYear, d.byYear[argsYear], categories))
    /\ pc' = "done"
    /\ UNCHANGED <<known_ibans, keywords, inputFiles, argsYear, error, fileIdx,
                   ALL_PAYMENTS, inOutIdx, payment>>

Next ==
    \/ ProcessInputFile
    \/ InputFilesDone
    \/ InOutYearStep
    \/ ShowCurrentAmount
    \/ ShowYear

Spec == Init /\ [][Next]_vars

(***************************************************************************)
(* associate_category on its own, over generated payments and lookup maps  *)
(***************************************************************************)
CatChars == {"a", "A", "b", "-"}

CatUsages == {<<>>, <<"b">>, <<"a", " ", "B">>}

CatIbans == {"", "DE1", "DE2"}

CatIbanMaps ==
    {<<>>,
     [i \in {"DE1"} |-> "Salary"],
     [i \in {"", "DE1"} |-> IF i = "" THEN "Cash" ELSE ""]}

CatKeywordMaps ==
    {<<>>,
     << <<<<"a", "b">>, "Rent">>, <<<<"b">>, "Food">> >>,
     << <<<<"b">>, "Food">>, <<<<"a", "b">>, "Rent">> >>,
     << <<<<"A">>, "Upper">>, <<<<"a">>, "">> >>,
     << <<<<"-">>, "Dash">>, <<<<>>, "Any">> >>}

InitCat ==
    /\ known_ibans \in CatIbanMaps
    /\ keywords \in CatKeywordMaps
    /\ payment \in {[NewPayment EXCEPT !.name = n, !.usage = u, !.iban = i] :
                        n \in SeqsUpTo(CatChars, MaxLen), u \in CatUsages,
                        i \in CatIbans}
    /\ pc = "associate_category"
    /\ inputFiles = <<>>
    /\ argsYear = 2023
    /\ error = ""
    /\ fileIdx = 0
    /\ ALL_PAYMENTS = <<>>
    /\ PAYMENTS_BY_YEAR = <<>>
    /\ yearKeys = <<>>
    /\ inOutIdx = 0
    /\ reports = <<>>

\* associate_category(payment)
Associate ==
    /\ pc = "associate_category"
    /\ payment' = [payment EXCEPT
                      !.category = AssociateCategory(payment, known_ibans, keywords)]
    /\ pc' = "categorized"
    /\ UNCHANGED <<known_ibans, keywords, inputFiles, argsYear, error, fileIdx,
                   ALL_PAYMENTS, PAYMENTS_BY_YEAR, yearKeys, inOutIdx, reports>>

NextCat == Associate

SpecCat == InitCat /\ [][NextCat]_vars

(***************************************************************************)
(* Properties                                                              *)
(***************************************************************************)
\* Keyword entry i of the map occurs in the lowercased name or usage of p
KeywordHits(p, i) ==
    \/ IsSubstring(keywords[i][1], Lower(p.name))
    \/ IsSubstring(keywords[i][1], Lower(p.usage))

\* The category the precedence rule gives p: IBAN map, then the first keyword
\* in configured order, then "Unknown"
RuleCategory(p, c) ==
    IF p.iban \in DOMAIN known_ibans THEN c = known_ibans[p.iban]
    ELSE IF \E i \in 1..Len(keywords) : KeywordHits(p, i)
         THEN \E i \in 1..Len(keywords) :
                  /\ KeywordHits(p, i)
                  /\ \A j \in 1..(i - 1) : ~KeywordHits(p, j)
                  /\ c = keywords[i][2]
         ELSE c = "Unknown"

LabelsNonEmpty ==
    /\ \A i \in DOMAIN known_ibans : known_ibans[i] # ""
    /\ \A i \in 1..Len(keywords) : keywords[i][2] # ""

\* C1 as stated: after associate_category the category is non-empty and is the
\* one the precedence rule gives, for every pair of lookup maps
C1_NonEmptyRuleCategory ==
    pc = "categorized" =>
        /\ payment.category # ""
        /\ RuleCategory(payment, payment.category)

\* C1 amended: after associate_category the category is the one the precedence
\* rule gives (IBAN map first, then the first matching keyword in configured
\* order, then "Unknown"); it is non-empty when no label of the two maps is
\* the empty string
C1_RuleCategory ==
    pc = "categorized" =>
        /\ RuleCategory(payment, payment.category)
        /\ LabelsNonEmpty => payment.category # ""

\* C1 witness: an IBAN of the map on a payment whose name or usage also holds a keyword of
\* another category
C1_Witness ==
    /\ pc = "categorized"
    /\ payment.iban \in DOMAIN known_ibans
    /\ \E i \in 1..Len(keywords) :
          KeywordHits(payment, i) /\ keywords[i][2] # payment.category

\* Occurrences of x in sequence s
Count(s, x) == Cardinality({i \in 1..Len(s) : s[i] = x})

YearsOf(ps) == {ps[i].date.year : i \in 1..Len(ps)}

\* C2: the global list and the buckets hold the same payments with the same
\* number of occurrences, each payment only in the bucket of its year and month
C2_ListAndBucketsAgree ==
    /\ \A i \in 1..Len(ALL_PAYMENTS) :
          LET p == ALL_PAYMENTS[i]
          IN  /\ p.date.year \in DOMAIN PAYMENTS_BY_YEAR
              /\ \A y \in DOMAIN PAYMENTS_BY_YEAR : \A m \in 1..Months :
                    Count(PAYMENTS_BY_YEAR[y][m], p) =
                        IF y = p.date.year /\ m = p.date.month
                        THEN Count(ALL_PAYMENTS, p) ELSE 0
    /\ \A y \in DOMAIN PAYMENTS_BY_YEAR : \A m \in 1..Months :
          \A i \in 1..Len(PAYMENTS_BY_YEAR[y][m]) :
              Count(ALL_PAYMENTS, PAYMENTS_BY_YEAR[y][m][i]) > 0

\* C2 witness: two batches were processed and a payment occurs twice
C2_Witness ==
    /\ fileIdx = 2
    /\ \E i \in 1..Len(ALL_PAYMENTS) : Count(ALL_PAYMENTS, ALL_PAYMENTS[i]) >= 2

ReportPcs == {"in_out_year", "show_year", "done"}

\* The file of entry i holds a data row whose Waehrung field is not EUR
ForeignCurrency(i) ==
    LET f == inputFiles[i].file
    IN  \E r \in 1..Len(f.rows) : \E k \in 1..Len(f.rows[r]) :
            f.keys[k] = "Waehrung" /\ f.rows[r][k] # "EUR"

ForeignFiles == {i \in 1..Len(inputFiles) : ForeignCurrency(i)}

FirstOf(S) == CHOOSE i \in S : \A j \in S : i <= j

RECURSIVE RowsUpTo(_)
RowsUpTo(n) == IF n = 0 THEN 0 ELSE Len(inputFiles[n].file.rows) + RowsUpTo(n - 1)

RECURSIVE BucketSizes(_, _)
BucketSizes(buckets, m) ==
    IF m > Months THEN 0 ELSE Len(buckets[m]) + BucketSizes(buckets, m + 1)

RECURSIVE Bucketed(_)
Bucketed(years) ==
    IF years = {} THEN 0
    ELSE LET y == CHOOSE y \in years : TRUE
         IN  BucketSizes(PAYMENTS_BY_YEAR[y], 1) + Bucketed(years \ {y})

C4_UnknownProcessorIsFatal ==
    \A i \in 1..Len(inputFiles) :
        inputFiles[i].field_processor # "gls" =>
            /\ fileIdx < i
            /\ pc \notin ReportPcs
            /\ reports = <<>>

ShowYearReports == {i \in 1..Len(reports) : reports[i].op = "show_year"}

RECURSIVE TotalAmount(_, _)
TotalAmount(ps, i) ==
    IF i > Len(ps) THEN 0 ELSE ps[i].amount + TotalAmount(ps, i + 1)

\* The bars of chart r at month position x that satisfy keep, in drawing order
BarsAt(r, x, positive) ==
    LET idx == {i \in 1..Len(r.bars) :
                    r.bars[i].x = x /\ (r.bars[i].height >= 0) = positive}
    IN  idx

RECURSIVE SumHeights(_, _)
SumHeights(r, idx) ==
    IF idx = {} THEN 0
    ELSE LET i == CHOOSE i \in idx : TRUE
         IN  r.bars[i].height + SumHeights(r, idx \ {i})

\* C5: in a drawn chart the per-category sums of a month add up to the sum of
\* the amounts of the month's bucket
C5_Conservation ==
    \A k \in ShowYearReports :
        LET r == reports[k]
        IN  \A m \in 1..Months :
                SumHeights(r, BarsAt(r, m, TRUE) \cup BarsAt(r, m, FALSE))
                    = TotalAmount(PAYMENTS_BY_YEAR[r.year][m], 1)

\* C5 witness: a chart of a year with a month that holds two payments of one category
\* and a payment of another
C5_Witness ==
    \E k \in ShowYearReports : \E m \in 1..Months :
        LET b == PAYMENTS_BY_YEAR[reports[k].year][m]
        IN  \E i, j, l \in 1..Len(b) :
                /\ i # j
                /\ b[i].category = b[j].category
                /\ b[l].category # b[i].category
                /\ b[i].amount > 0 /\ b[j].amount < 0

\* C6: in a drawn chart, per month, the bars with a sum >= 0 add up to the
\* final bottom_positives and the bars with a sum < 0 to the final
\* top_negatives, and every bar starts where the bars drawn before it in the
\* same stack end, so bars of one stack do not overlap
C6_Stacking ==
    \A k \in ShowYearReports :
        LET r == reports[k]
        IN  \A m \in 1..Months :
                /\ SumHeights(r, BarsAt(r, m, TRUE)) = r.stacks[m].bottom_positives
                /\ SumHeights(r, BarsAt(r, m, FALSE)) = r.stacks[m].top_negatives
                /\ \A s \in BOOLEAN : \A i \in BarsAt(r, m, s) :
                      r.bars[i].bottom =
                          SumHeights(r, {j \in BarsAt(r, m, s) : j < i})
                /\ \A i, j \in BarsAt(r, m, TRUE) :
                      i < j => r.bars[i].bottom + r.bars[i].height <= r.bars[j].bottom
                /\ \A i, j \in BarsAt(r, m, FALSE) :
                      i < j => r.bars[i].bottom + r.bars[i].height >= r.bars[j].bottom

\* C6 witness: a chart with a month that has two bars below zero and one above
C6_Witness ==
    \E k \in ShowYearReports : \E m \in 1..Months :
        LET r == reports[k]
        IN  /\ \E i, j \in BarsAt(r, m, FALSE) : i # j
            /\ \E i \in BarsAt(r, m, TRUE) : r.bars[i].height > 0

SameBag(s, t) ==
    /\ Len(s) = Len(t)
    /\ \A x \in Range(s) \cup Range(t) : Count(s, x) = Count(t, x)

\* The run's state after ingesting the input files in the order q
Reordered(q) ==
    IngestAll([i \in 1..Len(inputFiles) |-> inputFiles[q[i]]], 1, <<>>,
              [byYear |-> <<>>, keys |-> <<>>], known_ibans, keywords)

\* process_all_input_files has just returned
Ingested == pc = "in_out_year" /\ inOutIdx = 0

BalanceReports == {i \in 1..Len(reports) : reports[i].op = "show_current_amount"}

\* The positions of ALL_PAYMENTS whose date no other payment's date is after
LatestDated ==
    {i \in 1..Len(ALL_PAYMENTS) :
        \A j \in 1..Len(ALL_PAYMENTS) :
            ~DateLess(ALL_PAYMENTS[i].date, ALL_PAYMENTS[j].date)}

LastOf(S) == CHOOSE i \in S : \A j \in S : j <= i

\* C8: the balance show_current_amount reports is the amount_left of the last
\* payment, in insertion order, among those of the latest date; with no
\* payment ingested it ends the run with an error and reports no balance
C8_CurrentAmount ==
    /\ \A k \in BalanceReports :
          reports[k].balance = ALL_PAYMENTS[LastOf(LatestDated)].amount_left
    /\ pc \in {"show_year", "done"} =>
          ALL_PAYMENTS # <<>> /\ Cardinality(BalanceReports) = 1
    /\ (fileIdx = Len(inputFiles) /\ ALL_PAYMENTS = <<>>) =>
          /\ BalanceReports = {}
          /\ pc \in {"process_all_input_files", "in_out_year", "exited"}
          /\ pc = "exited" => error = "IndexError"

\* C8 witness: a balance was reported while two payments of the latest date differ in
\* amount_left
C8_Witness ==
    /\ BalanceReports # {}
    /\ \E i, j \in LatestDated :
          ALL_PAYMENTS[i].amount_left # ALL_PAYMENTS[j].amount_left

BarsOf(r, x, c) == {i \in 1..Len(r.bars) : r.bars[i].x = x /\ r.bars[i].category = c}

LegendOf(r, c) == {i \in 1..Len(r.legend) : r.legend[i] = c}

\* C9 as stated: the bars of a chart are one for each month and category with
\* a nonzero sum, and the legend has one entry for each category of the year
C9_BarsOfNonzeroSums ==
    \A k \in ShowYearReports :
        LET r == reports[k]
            cats == CategorySet(PAYMENTS_BY_YEAR[r.year])
        IN  /\ \A c \in cats : Cardinality(LegendOf(r, c)) = 1
            /\ Range(r.legend) = cats
            /\ \A c \in cats : \A m \in 1..Months :
                  Cardinality(BarsOf(r, m, c)) =
                      IF SumCategory(PAYMENTS_BY_YEAR[r.year][m], c) # 0 THEN 1 ELSE 0

\* C9 amended: a chart has exactly one bar for each of the 12 months and each
\* category of the year, of the height of the category's sum in that month,
\* a zero sum included, and no other bar; the legend has exactly one entry
\* for each category of the year
C9_BarsOfAllSums ==
    \A k \in ShowYearReports :
        LET r == reports[k]
            cats == CategorySet(PAYMENTS_BY_YEAR[r.year])
        IN  /\ \A c \in cats : Cardinality(LegendOf(r, c)) = 1
            /\ Range(r.legend) = cats
            /\ Len(r.bars) = Months * Cardinality(cats)
            /\ \A c \in cats : \A m \in 1..Months :
                  /\ Cardinality(BarsOf(r, m, c)) = 1
                  /\ \A i \in BarsOf(r, m, c) :
                        r.bars[i].height = SumCategory(PAYMENTS_BY_YEAR[r.year][m], c)

\* C9 witness: a chart of a year with two payments of one category in a month whose sum
\* is zero, next to a category whose sum is not
C9_Witness ==
    \E k \in ShowYearReports : \E m \in 1..Months :
        LET r == reports[k]
            b == PAYMENTS_BY_YEAR[r.year][m]
        IN  /\ \E i \in 1..Len(b) : SumCategory(b, b[i].category) = 0
            /\ \E i \in 1..Len(b) : SumCategory(b, b[i].category) # 0
            /\ Cardinality(CategorySet(PAYMENTS_BY_YEAR[r.year])) >= 2

\* C10 as stated: the keys of PAYMENTS_BY_YEAR are the years of the ingested
\* payments, also after the report operations
C10_KeysAreIngestedYears ==
    DOMAIN PAYMENTS_BY_YEAR = YearsOf(ALL_PAYMENTS)

\* C10 amended: the keys of PAYMENTS_BY_YEAR are the years of the ingested
\* payments and, once show_year has run, the year it was called for, whose 12
\* buckets are empty when no payment has its date in it; in_out_year, called
\* for the keys, adds none
C10_KeysAreAccessedYears ==
    /\ DOMAIN PAYMENTS_BY_YEAR =
          YearsOf(ALL_PAYMENTS) \cup {y \in {argsYear} : pc = "done"}
    /\ Range(yearKeys) = DOMAIN PAYMENTS_BY_YEAR
    /\ Len(yearKeys) = Cardinality(DOMAIN PAYMENTS_BY_YEAR)
    /\ \A y \in DOMAIN PAYMENTS_BY_YEAR \ YearsOf(ALL_PAYMENTS) :
          PAYMENTS_BY_YEAR[y] = EmptyYear

\* C10 witness: show_year has run for a year without payments after two other years were
\* ingested and reported
C10_Witness ==
    /\ pc = "done"
    /\ argsYear \notin YearsOf(ALL_PAYMENTS)
    /\ argsYear \in DOMAIN PAYMENTS_BY_YEAR
    /\ Cardinality(YearsOf(ALL_PAYMENTS)) = 2
    /\ inOutIdx = 2

====
